---- MODULE Spec2Model ----
(***************************************************************************)
(* A model of the PDFium/QPDF binding layer of src/src/lib.rs: the         *)
(* process-wide initialization latch (INIT: Once), the text extraction     *)
(* pipeline, the structure-to-JSON pipeline, the C-ABI shim and the        *)
(* streaming pass-throughs, run by two caller threads against a native     *)
(* engine whose return values are chosen nondeterministically.             *)
(***************************************************************************)
EXTENDS Integers, Sequences, FiniteSets

(***************************************************************************)
(* Bounds of the model.                                                    *)
(***************************************************************************)
\* the largest page count the native engine reports
MaxPages == 2
\* the largest ordinary character count the native engine reports for a page
MaxChars == 1
\* the largest input buffer length a caller passes
MaxLen == 1
\* how many shim buffers the caller holds unfreed at a time
MaxHeld == 1
\* by how many bytes the longest input buffer is longer than 2^31 - 1
MaxOver == 2

\* the two caller threads
Threads == {"t1", "t2"}

(***************************************************************************)
(* Values of the program.                                                  *)
(***************************************************************************)
\* the largest c_int: a character count the native engine may report
INT_MAX == 2147483647

NULL == <<"null", 0>>
DocHandle == <<"doc", 0>>
PageHandle(idx) == <<"page", idx>>
TextPageHandle(idx) == <<"text", idx>>
JsonHandle == <<"json", 0>>

\* "\n---PAGE BREAK---\n" as code points
SEPARATOR == <<10, 45, 45, 45, 80, 65, 71, 69, 32, 66, 82, 69, 65, 75, 45, 45, 45, 10>>

\* the UTF-16 code units the native engine writes for a character
Units == {65}
\* the code units of a text with a NUL, a surrogate pair and lone surrogates
AnyUnits == {0, 65, 55357, 56832}
\* the C strings the native converter returns ("{}" and one invalid byte)
NativeJson == {<<123, 125>>, <<255>>}
\* the format version pdf_to_json asks the native converter for
JSON_VERSION == 2

\* the native functions, by the role they play for the binding layer
SetupFn == "FPDF_InitLibraryWithConfig"
TeardownFn == "FPDF_DestroyLibrary"
LoadFns == {"FPDF_LoadMemDocument", "IPDF_StreamingIO_LoadDocument"}
PageFns == {"FPDF_GetPageCount", "FPDF_LoadPage", "FPDFText_LoadPage",
            "FPDFText_CountChars", "FPDFText_GetText"}
ConvertFns == {"IPDF_QPDF_PDFToJSON"}
SaveFns == {"IPDF_StreamingIO_SaveWithCallback"}
CloseFns == {"FPDF_CloseDocument", "FPDF_ClosePage", "FPDFText_ClosePage",
             "IPDF_QPDF_FreeString"}
EngineFns == LoadFns \cup PageFns \cup ConvertFns \cup SaveFns \cup CloseFns
\* the native calls counted per call of an entry point; the two page loads
\* are counted per page index
CountedFns == {"FPDF_LoadMemDocument", "IPDF_QPDF_PDFToJSON", "FPDF_LoadPage",
               "FPDFText_LoadPage", TeardownFn}
PerPageFns == {"FPDF_LoadPage", "FPDFText_LoadPage"}

PipelineOps == {"extract_text", "pdf_to_json",
                "pdfium_wasm_extract_text", "pdfium_wasm_pdf_to_json"}
ExtractOps == {"extract_text", "pdfium_wasm_extract_text"}
JsonOps == {"pdf_to_json", "pdfium_wasm_pdf_to_json"}
ShimPipelineOps == {"pdfium_wasm_extract_text", "pdfium_wasm_pdf_to_json"}

(***************************************************************************)
(* Pure functions.                                                         *)
(***************************************************************************)
IsHighSurrogate(u) == u >= 55296 /\ u <= 56319
IsLowSurrogate(u) == u >= 56320 /\ u <= 57343

\* String::from_utf16_lossy: a surrogate pair is one character, a lone
\* surrogate is U+FFFD, every other unit is itself
RECURSIVE from_utf16_lossy(_)
from_utf16_lossy(s) ==
    IF s = <<>> THEN <<>>
    ELSE IF IsHighSurrogate(s[1]) /\ Len(s) > 1 /\ IsLowSurrogate(s[2])
         THEN <<65536 + (s[1] - 55296) * 1024 + (s[2] - 56320)>>
              \o from_utf16_lossy(SubSeq(s, 3, Len(s)))
    ELSE IF IsHighSurrogate(s[1]) \/ IsLowSurrogate(s[1])
         THEN <<65533>> \o from_utf16_lossy(Tail(s))
    ELSE <<s[1]>> \o from_utf16_lossy(Tail(s))

\* CStr::to_string_lossy on bytes below 0x80, on two-byte sequences and on
\* bytes that start no sequence (each is U+FFFD)
RECURSIVE to_string_lossy(_)
to_string_lossy(b) ==
    IF b = <<>> THEN <<>>
    ELSE IF b[1] < 128 THEN <<b[1]>> \o to_string_lossy(Tail(b))
    ELSE IF b[1] >= 194 /\ b[1] <= 223 /\ Len(b) > 1 /\ b[2] >= 128 /\ b[2] <= 191
         THEN <<(b[1] - 192) * 64 + (b[2] - 128)>>
              \o to_string_lossy(SubSeq(b, 3, Len(b)))
    ELSE <<65533>> \o to_string_lossy(Tail(b))

\* the UTF-8 bytes of one character
Utf8Char(c) ==
    IF c < 128 THEN <<c>>
    ELSE IF c < 2048 THEN <<192 + (c \div 64), 128 + (c % 64)>>
    ELSE IF c < 65536
         THEN <<224 + (c \div 4096), 128 + ((c \div 64) % 64), 128 + (c % 64)>>
    ELSE <<240 + (c \div 262144), 128 + ((c \div 4096) % 64),
           128 + ((c \div 64) % 64), 128 + (c % 64)>>

\* the bytes of a String
RECURSIVE Utf8(_)
Utf8(str) == IF str = <<>> THEN <<>> ELSE Utf8Char(str[1]) \o Utf8(Tail(str))

\* CString::new(s).unwrap_or_default(): the bytes of s, or the empty C
\* string when s holds an interior zero byte; into_raw adds the terminator
CStringBytes(str) ==
    LET b == Utf8(str)
    IN  IF \E k \in 1..Len(b) : b[k] = 0 THEN <<0>> ELSE b \o <<0>>

\* Vec::truncate: a length at or past the end changes nothing
Truncate(v, n) == IF n < Len(v) THEN SubSeq(v, 1, n) ELSE v

\* text_length + 1 in c_int arithmetic (release build: wrapping)
AddOneI32(n) == IF n = INT_MAX THEN (0 - INT_MAX) - 1 ELSE n + 1

\* vec![0; (text_length + 1) as usize] panics when the sum overflows (the
\* debug build's check, the release build's capacity overflow on the
\* sign-extended length)
AllocPanics(n) == AddOneI32(n) < 0

\* pdf_bytes.len() as i32, for a buffer of len + over bytes where len is at
\* most 2^31 - 1 and over is the excess of a longer buffer (len + over is
\* below 2^32): the low 32 bits of the length, read as a signed integer
AsI32(len, over) ==
    IF over = 0 THEN len ELSE ((len - INT_MAX) + (over - INT_MAX)) - 2

\* how many times the separator occurs in a text
CountSeparators(str) ==
    Cardinality({k \in 1..Len(str) :
        /\ k + Len(SEPARATOR) - 1 <= Len(str)
        /\ SubSeq(str, k, k + Len(SEPARATOR) - 1) = SEPARATOR})

(***************************************************************************)
(* State.                                                                  *)
(***************************************************************************)
VARIABLES
    once,       \* INIT: "incomplete", "running" or "complete"
    engine,     \* the native engine: "uninit", "ready" or "destroyed"
    nSetup,     \* executions of FPDF_InitLibraryWithConfig
    heap,       \* the shim buffers (CString::into_raw) not yet freed
    pc,         \* each thread's position
    op,         \* the entry point each thread is in
    arg,        \* its arguments
    loc,        \* the locals of extract_text / pdf_to_json
    res,        \* the Result the pipeline or initialize() returned
    cret,       \* the value returned across the C ABI
    obs         \* what the native engine saw of the current call

vars == <<once, engine, nSetup, heap, pc, op, arg, loc, res, cret, obs>>
globals == <<once, engine, nSetup, heap>>

NoArg == [data |-> "null", len |-> 0, over |-> 0]
NoLoc == [doc |-> NULL, page_count |-> 0, i |-> 0, page |-> NULL,
          text_page |-> NULL, text_length |-> 0, buffer |-> <<>>,
          chars_written |-> 0, text |-> <<>>, json_ptr |-> NULL, json |-> <<>>]
NoRes == [kind |-> "none", err |-> "", text |-> <<>>]
NoRet == [kind |-> "none", v |-> 0, bytes |-> <<>>]
NoObs == [issued |-> {}, live |-> {}, badRel |-> FALSE, stale |-> FALSE,
          early |-> FALSE, inited |-> FALSE, down |-> FALSE,
          count |-> [f \in CountedFns |-> 0], idx |-> 0 - 1, back |-> FALSE,
          version |-> 0, freedBy |-> {}, size |-> 0]

Ok(str) == [kind |-> "Ok", err |-> "", text |-> str]
Err(e) == [kind |-> "Err", err |-> e, text |-> <<>>]
RetNull == [kind |-> "null", v |-> 0, bytes |-> <<>>]
RetPtr(id, b) == [kind |-> "ptr", v |-> id, bytes |-> b]
RetInt(n) == [kind |-> "int", v |-> n, bytes |-> <<>>]
RetVoid == [kind |-> "void", v |-> 0, bytes |-> <<>>]
RetHandle(h) == [kind |-> IF h = NULL THEN "null" ELSE "handle", v |-> 0, bytes |-> <<>>]

Init ==
    /\ once = "incomplete"
    /\ engine = "uninit"
    /\ nSetup = 0
    /\ heap = {}
    /\ pc = [t \in Threads |-> "idle"]
    /\ op = [t \in Threads |-> "none"]
    /\ arg = [t \in Threads |-> NoArg]
    /\ loc = [t \in Threads |-> NoLoc]
    /\ res = [t \in Threads |-> NoRes]
    /\ cret = [t \in Threads |-> NoRet]
    /\ obs = [t \in Threads |-> NoObs]

(***************************************************************************)
(* The native engine's view of a call.                                     *)
(***************************************************************************)
\* a native call of function f that reads the handles hs
Call(o, f, hs) ==
    [o EXCEPT !.issued = @ \cup {f},
              !.stale = @ \/ ~(hs \subseteq o.live),
              !.early = @ \/ (nSetup = 0),
              !.down = @ \/ (engine # "ready"),
              !.count = [g \in CountedFns |-> IF g = f THEN @[g] + 1 ELSE @[g]]]

\* the native engine is handed the page index idx: the per-page counts
\* restart at an index it has not seen, and an index below the last one
\* is a step back
AtIndex(o, idx) ==
    IF idx = o.idx THEN o
    ELSE [o EXCEPT !.idx = idx,
                   !.back = @ \/ (idx < o.idx),
                   !.count = [g \in CountedFns |-> IF g \in PerPageFns THEN 0 ELSE @[g]]]

\* a native call that returned the handle h (NULL: nothing acquired)
Acquire(o, h) == IF h = NULL THEN o ELSE [o EXCEPT !.live = @ \cup {h}]

\* a native release of the handle h by function f
Release(o, f, h) ==
    [o EXCEPT !.issued = @ \cup {f},
              !.badRel = @ \/ (h \notin o.live),
              !.live = @ \ {h},
              !.early = @ \/ (nSetup = 0),
              !.down = @ \/ (engine # "ready"),
              !.freedBy = @ \cup {<<f, h[1]>>}]

\* the threads race inside initialize() only: the engine is not
\* thread-safe, and a caller lets no call go past initialize() while
\* another call is past it
Serial(t) == \A u \in Threads \ {t} : pc[u] \in {"idle", "init", "init_setup"}

(***************************************************************************)
(* Entry points without a pipeline.                                        *)
(***************************************************************************)
\* a call starts while another call is in progress only to race the first
\* initialization, or when it is a call of initialize() itself
MayEnter(t, o) ==
    \/ o \in {"initialize", "pdfium_wasm_initialize"}
    \/ once # "complete"
    \/ \A u \in Threads \ {t} : pc[u] = "idle"

Enter(t, o, a) ==
    /\ pc[t] = "idle"
    /\ MayEnter(t, o)
    /\ op' = [op EXCEPT ![t] = o]
    /\ arg' = [arg EXCEPT ![t] = a]

\* pub fn initialize()
initialize(t) ==
    /\ Enter(t, "initialize", NoArg)
    /\ pc' = [pc EXCEPT ![t] = "init"]
    /\ UNCHANGED <<globals, loc, res, cret, obs>>

\* pub extern "C" fn pdfium_wasm_initialize()
pdfium_wasm_initialize(t) ==
    /\ Enter(t, "pdfium_wasm_initialize", NoArg)
    /\ pc' = [pc EXCEPT ![t] = "init"]
    /\ UNCHANGED <<globals, loc, res, cret, obs>>

\* Once::call_once: which state lets the caller run the closure
CallOnceRunsBroken(st) == st # "complete"
CallOnceRuns(st) == st = "incomplete"

\* Once::call_once: which state makes the caller wait
CallOnceBlocksBroken(st) == FALSE
CallOnceBlocks(st) == st = "running"

\* where initialize()'s caller continues
AfterInit(o) ==
    CASE o \in ExtractOps -> "ex_start"
      [] o \in JsonOps -> "pj_start"
      [] o = "pdfium_wasm_load_custom_document" -> "lc_load"
      [] OTHER -> "init_ret"

\* what initialize() returns after call_once: Ok(())
InitializeResultBroken == Err("InitializationFailed")
InitializeResult == Ok(<<>>)

\* initialize() has returned r to the entry point o of thread t:
\* `initialize()?` returns an error from a pipeline at once,
\* `let _ = initialize()` ignores it
LeaveInit(t, o, r) ==
    IF o \in PipelineOps /\ r.kind # "Ok"
    THEN /\ res' = [res EXCEPT ![t] = r]
         /\ pc' = [pc EXCEPT ![t] = IF o \in ShimPipelineOps THEN "shim_wrap" ELSE "ret"]
    ELSE /\ res' = res
         /\ pc' = [pc EXCEPT ![t] = AfterInit(o)]

\* match initialize() { Ok(_) => 1, Err(_) => 0 }
InitializeCode(r) == IF r.kind = "Ok" THEN 1 ELSE 0

\* INIT.call_once(...): the first caller takes the latch and enters the
\* closure; a caller that finds it running waits; one that finds it
\* complete goes on
call_once(t) ==
    /\ pc[t] = "init"
    /\ ~(CallOnceBlocks(once) /\ ~CallOnceRuns(once))
    /\ IF CallOnceRuns(once)
       THEN /\ once' = "running"
            /\ pc' = [pc EXCEPT ![t] = "init_setup"]
            /\ res' = res
       ELSE /\ Serial(t)
            /\ once' = once
            /\ LeaveInit(t, op[t], InitializeResult)
    /\ obs' = [obs EXCEPT ![t].inited = TRUE]
    /\ UNCHANGED <<engine, nSetup, heap, op, arg, loc, cret>>

\* the closure: FPDF_InitLibraryWithConfig(&config), then the latch completes
init_closure(t) ==
    /\ pc[t] = "init_setup"
    /\ Serial(t)
    /\ nSetup' = nSetup + 1
    /\ engine' = "ready"
    /\ once' = "complete"
    /\ obs' = [obs EXCEPT ![t].issued = @ \cup {SetupFn}]
    /\ LeaveInit(t, op[t], InitializeResult)
    /\ UNCHANGED <<heap, op, arg, loc, cret>>

\* initialize() returns Ok(()); pdfium_wasm_initialize maps it to 1
init_return(t) ==
    /\ pc[t] = "init_ret"
    /\ res' = [res EXCEPT ![t] = InitializeResult]
    /\ cret' = [cret EXCEPT ![t] =
                  IF op[t] = "pdfium_wasm_initialize"
                  THEN RetInt(InitializeCode(InitializeResult)) ELSE NoRet]
    /\ pc' = [pc EXCEPT ![t] = "ret"]
    /\ UNCHANGED <<globals, op, arg, loc, obs>>

(***************************************************************************)
(* extract_text.                                                           *)
(***************************************************************************)
\* pub fn extract_text(pdf_bytes: &[u8]): a slice is never a null pointer
extract_text(t) ==
    \E n \in 0..MaxLen :
        /\ Enter(t, "extract_text", [data |-> "ptr", len |-> n, over |-> 0])
        /\ pc' = [pc EXCEPT ![t] = "init"]
        /\ UNCHANGED <<globals, loc, res, cret, obs>>

\* extract_text on a buffer of 2^31 - 1 bytes or more
extract_text_LongInput(t) ==
    \E k \in 0..MaxOver :
        /\ Enter(t, "extract_text", [data |-> "ptr", len |-> INT_MAX, over |-> k])
        /\ pc' = [pc EXCEPT ![t] = "init"]
        /\ UNCHANGED <<globals, loc, res, cret, obs>>

\* pdf_data.is_null() || pdf_len == 0
ShimRejectsBroken(data, n) == data = "null" /\ n = 0
ShimRejects(data, n) == data = "null" \/ n = 0

\* the caller holds fewer than MaxHeld buffers, counting the ones the
\* running shim calls may return
MayHoldMore == Cardinality(heap) + Cardinality({u \in Threads : op[u] \in ShimPipelineOps}) < MaxHeld

\* a shim entry: null or zero length returns null at once, else the pipeline
ShimEnter(t, o) ==
    \E data \in {"null", "ptr"}, n \in 0..MaxLen :
        /\ MayHoldMore
        /\ Enter(t, o, [data |-> data, len |-> n, over |-> 0])
        /\ IF ShimRejects(data, n)
           THEN /\ Serial(t)
                /\ pc' = [pc EXCEPT ![t] = "ret"]
                /\ cret' = [cret EXCEPT ![t] = RetNull]
           ELSE /\ pc' = [pc EXCEPT ![t] = "init"]
                /\ cret' = cret
        /\ UNCHANGED <<globals, loc, res, obs>>

\* pub extern "C" fn pdfium_wasm_extract_text(pdf_data, pdf_len)
pdfium_wasm_extract_text(t) == ShimEnter(t, "pdfium_wasm_extract_text")

\* pdf_bytes.is_empty()
IsEmptyBroken(n) == FALSE
IsEmpty(n) == n = 0

\* the pipeline returns r: to the caller, or to the shim's match
Finish(t, r) ==
    /\ res' = [res EXCEPT ![t] = r]
    /\ pc' = [pc EXCEPT ![t] = IF op[t] \in ShimPipelineOps THEN "shim_wrap" ELSE "ret"]

\* if pdf_bytes.is_empty() { return Err(InvalidData) }
extract_text_empty(t) ==
    /\ pc[t] = "ex_start"
    /\ IsEmpty(arg[t].len)
    /\ Finish(t, Err("InvalidData"))
    /\ UNCHANGED <<globals, op, arg, loc, cret, obs>>

\* doc.is_null()
DocIsNullBroken(d) == FALSE
DocIsNull(d) == d = NULL

\* FPDF_LoadMemDocument and the null check
extract_text_LoadMemDocument(t) ==
    /\ pc[t] = "ex_start"
    /\ ~IsEmpty(arg[t].len)
    /\ \E d \in {NULL, DocHandle} :
        /\ obs' = [obs EXCEPT ![t] =
                    [Acquire(Call(@, "FPDF_LoadMemDocument", {}), d)
                        EXCEPT !.size = AsI32(arg[t].len, arg[t].over)]]
        /\ IF DocIsNull(d)
           THEN /\ Finish(t, Err("ExtractionFailed"))
                /\ loc' = loc
           ELSE /\ pc' = [pc EXCEPT ![t] = "ex_count"]
                /\ loc' = [loc EXCEPT ![t].doc = d]
                /\ res' = res
    /\ UNCHANGED <<globals, op, arg, cret>>

\* `for i in 0..page_count`: the index of the next iteration
NextIndexBroken(idx) == idx
NextIndex(idx) == idx + 1

\* the head of `for i in 0..page_count`
LoopPc(idx, count) == IF idx < count THEN "ex_loadpage" ELSE "ex_closedoc"

\* FPDF_GetPageCount; text = String::new(); the loop starts at 0
extract_text_GetPageCount(t) ==
    /\ pc[t] = "ex_count"
    /\ \E n \in (0 - 1)..MaxPages :
        /\ loc' = [loc EXCEPT ![t].page_count = n, ![t].i = 0, ![t].text = <<>>]
        /\ pc' = [pc EXCEPT ![t] = LoopPc(0, n)]
    /\ obs' = [obs EXCEPT ![t] = Call(@, "FPDF_GetPageCount", {loc[t].doc})]
    /\ UNCHANGED <<globals, op, arg, res, cret>>

\* FPDF_LoadPage; a null page is skipped with `continue`
extract_text_LoadPage(t) ==
    /\ pc[t] = "ex_loadpage"
    /\ \E p \in {NULL, PageHandle(loc[t].i)} :
        /\ obs' = [obs EXCEPT ![t] = Acquire(Call(AtIndex(@, loc[t].i), "FPDF_LoadPage", {loc[t].doc}), p)]
        /\ IF p = NULL
           THEN /\ loc' = [loc EXCEPT ![t].i = NextIndex(@)]
                /\ pc' = [pc EXCEPT ![t] = LoopPc(NextIndex(loc[t].i), loc[t].page_count)]
           ELSE /\ loc' = [loc EXCEPT ![t].page = p]
                /\ pc' = [pc EXCEPT ![t] = "ex_tload"]
    /\ UNCHANGED <<globals, op, arg, res, cret>>

\* FPDFText_LoadPage; if !text_page.is_null() { ... }
extract_text_TextLoadPage(t) ==
    /\ pc[t] = "ex_tload"
    /\ \E tp \in {NULL, TextPageHandle(loc[t].i)} :
        /\ obs' = [obs EXCEPT ![t] = Acquire(Call(AtIndex(@, loc[t].i), "FPDFText_LoadPage", {loc[t].page}), tp)]
        /\ loc' = [loc EXCEPT ![t].text_page = tp]
        /\ pc' = [pc EXCEPT ![t] = IF tp = NULL THEN "ex_pclose" ELSE "ex_cchars"]
    /\ UNCHANGED <<globals, op, arg, res, cret>>

\* where the page goes on after the character count: if text_length > 0
AfterCountCharsBroken(n) == IF n > 0 THEN "ex_alloc" ELSE "ex_pclose"
AfterCountChars(n) == IF n > 0 THEN "ex_alloc" ELSE "ex_tclose"

\* FPDFText_CountChars
extract_text_CountChars(t) ==
    /\ pc[t] = "ex_cchars"
    /\ \E n \in ((0 - 1)..MaxChars) \cup {INT_MAX} :
        /\ loc' = [loc EXCEPT ![t].text_length = n]
        /\ pc' = [pc EXCEPT ![t] = AfterCountChars(n)]
    /\ obs' = [obs EXCEPT ![t] = Call(@, "FPDFText_CountChars", {loc[t].text_page})]
    /\ UNCHANGED <<globals, op, arg, res, cret>>

\* vec![0; (text_length + 1) as usize]: the buffer, or a panic
extract_text_alloc(t) ==
    /\ pc[t] = "ex_alloc"
    /\ IF AllocPanics(loc[t].text_length)
       THEN /\ pc' = [pc EXCEPT ![t] = "panicked"]
            /\ res' = [res EXCEPT ![t] = [kind |-> "panic", err |-> "", text |-> <<>>]]
            /\ loc' = loc
       ELSE /\ pc' = [pc EXCEPT ![t] = "ex_gettext"]
            /\ res' = res
            /\ loc' = [loc EXCEPT ![t].buffer =
                         [k \in 1..AddOneI32(loc[t].text_length) |-> 0]]
    /\ UNCHANGED <<globals, op, arg, cret, obs>>

\* the buffer after the native engine wrote w units into it: w - 1
\* characters and the terminator
Written(buf, w, chars) ==
    [k \in 1..Len(buf) |-> IF k < w THEN chars[k] ELSE IF k = w THEN 0 ELSE buf[k]]

\* what one page adds to the text: if chars_written > 0, the buffer
\* without its last written unit, decoded
PageTextBroken(buf, w) ==
    IF w > 0 THEN from_utf16_lossy(Truncate(buf, w)) ELSE <<>>
PageText(buf, w) ==
    IF w > 0 THEN from_utf16_lossy(Truncate(buf, w - 1)) ELSE <<>>

\* FPDFText_GetText(text_page, 0, text_length, buffer.as_mut_ptr()): the
\* native engine writes units of U into the buffer and reports how many
GetText(t, U) ==
    /\ pc[t] = "ex_gettext"
    /\ \E w \in (0 - 1)..(loc[t].text_length + 1) :
       \E chars \in [1..(IF w > 0 THEN w - 1 ELSE 0) -> U] :
        loc' = [loc EXCEPT ![t].buffer = Written(@, w, chars),
                           ![t].chars_written = w]
    /\ obs' = [obs EXCEPT ![t] = Call(@, "FPDFText_GetText", {loc[t].text_page})]
    /\ pc' = [pc EXCEPT ![t] = "ex_decode"]
    /\ UNCHANGED <<globals, op, arg, res, cret>>

\* the native engine writes ordinary characters
extract_text_GetText(t) == GetText(t, Units)

\* the native engine writes any code unit
extract_text_GetText_AnyUnit(t) == GetText(t, AnyUnits)

\* if chars_written > 0 { buffer.truncate(..); text.push_str(..) }; the
\* buffer goes out of scope
extract_text_decode(t) ==
    /\ pc[t] = "ex_decode"
    /\ loc' = [loc EXCEPT ![t].text = @ \o PageText(loc[t].buffer, loc[t].chars_written),
                           ![t].buffer = <<>>,
                           ![t].chars_written = 0]
    /\ pc' = [pc EXCEPT ![t] = "ex_tclose"]
    /\ UNCHANGED <<globals, op, arg, res, cret, obs>>

\* FPDFText_ClosePage(text_page)
extract_text_TextClosePage(t) ==
    /\ pc[t] = "ex_tclose"
    /\ obs' = [obs EXCEPT ![t] = Release(@, "FPDFText_ClosePage", loc[t].text_page)]
    /\ pc' = [pc EXCEPT ![t] = "ex_pclose"]
    /\ UNCHANGED <<globals, op, arg, loc, res, cret>>

\* if i < page_count - 1 { text.push_str(SEPARATOR) }
WithSeparator(str, idx, count) == IF idx < count - 1 THEN str \o SEPARATOR ELSE str

\* FPDF_ClosePage(page), the separator, and the next iteration
extract_text_ClosePage(t) ==
    /\ pc[t] = "ex_pclose"
    /\ obs' = [obs EXCEPT ![t] = Release(@, "FPDF_ClosePage", loc[t].page)]
    /\ loc' = [loc EXCEPT ![t].text = WithSeparator(@, loc[t].i, loc[t].page_count),
                          ![t].i = NextIndex(@),
                          ![t].page = NULL,
                          ![t].text_page = NULL,
                          ![t].text_length = 0]
    /\ pc' = [pc EXCEPT ![t] = LoopPc(NextIndex(loc[t].i), loc[t].page_count)]
    /\ UNCHANGED <<globals, op, arg, res, cret>>

\* FPDF_CloseDocument(doc); Ok(text)
extract_text_CloseDocument(t) ==
    /\ pc[t] = "ex_closedoc"
    /\ obs' = [obs EXCEPT ![t] = Release(@, "FPDF_CloseDocument", loc[t].doc)]
    /\ Finish(t, Ok(loc[t].text))
    /\ UNCHANGED <<globals, op, arg, loc, cret>>

(***************************************************************************)
(* pdf_to_json.                                                            *)
(***************************************************************************)
\* pub fn pdf_to_json(pdf_bytes: &[u8])
pdf_to_json(t) ==
    \E n \in 0..MaxLen :
        /\ Enter(t, "pdf_to_json", [data |-> "ptr", len |-> n, over |-> 0])
        /\ pc' = [pc EXCEPT ![t] = "init"]
        /\ UNCHANGED <<globals, loc, res, cret, obs>>

\* pub extern "C" fn pdfium_wasm_pdf_to_json(pdf_data, pdf_len)
pdfium_wasm_pdf_to_json(t) == ShimEnter(t, "pdfium_wasm_pdf_to_json")

\* if pdf_bytes.is_empty() { return Err(InvalidData) }
pdf_to_json_empty(t) ==
    /\ pc[t] = "pj_start"
    /\ IsEmpty(arg[t].len)
    /\ Finish(t, Err("InvalidData"))
    /\ UNCHANGED <<globals, op, arg, loc, cret, obs>>

\* json_ptr.is_null()
JsonIsNullBroken(p) == FALSE
JsonIsNull(p) == p = NULL

\* IPDF_QPDF_PDFToJSON(ptr, len, 2) and the null check
pdf_to_json_PDFToJSON(t) ==
    /\ pc[t] = "pj_start"
    /\ ~IsEmpty(arg[t].len)
    /\ \E b \in {<<>>} \cup NativeJson :
        LET p == IF b = <<>> THEN NULL ELSE JsonHandle
        IN  /\ obs' = [obs EXCEPT ![t] =
                        [Acquire(Call(@, "IPDF_QPDF_PDFToJSON", {}), p)
                            EXCEPT !.version = JSON_VERSION]]
            /\ IF JsonIsNull(p)
               THEN /\ Finish(t, Err("ConversionFailed"))
                    /\ loc' = loc
               ELSE /\ pc' = [pc EXCEPT ![t] = "pj_copy"]
                    /\ loc' = [loc EXCEPT ![t].json_ptr = p, ![t].buffer = b]
                    /\ res' = res
    /\ UNCHANGED <<globals, op, arg, cret>>

\* CStr::from_ptr(json_ptr).to_string_lossy().into_owned(): reads the
\* native buffer
pdf_to_json_copy(t) ==
    /\ pc[t] = "pj_copy"
    /\ loc' = [loc EXCEPT ![t].json = to_string_lossy(loc[t].buffer)]
    /\ obs' = [obs EXCEPT ![t].stale = @ \/ (loc[t].json_ptr \notin obs[t].live)]
    /\ pc' = [pc EXCEPT ![t] = "pj_free"]
    /\ UNCHANGED <<globals, op, arg, res, cret>>

\* IPDF_QPDF_FreeString(json_ptr); Ok(json)
pdf_to_json_FreeString(t) ==
    /\ pc[t] = "pj_free"
    /\ obs' = [obs EXCEPT ![t] = Release(@, "IPDF_QPDF_FreeString", loc[t].json_ptr)]
    /\ loc' = [loc EXCEPT ![t].buffer = <<>>]
    /\ Finish(t, Ok(loc[t].json))
    /\ UNCHANGED <<globals, op, arg, cret>>

(***************************************************************************)
(* cleanup, free_string and the streaming pass-throughs.                   *)
(***************************************************************************)
\* INIT after cleanup(): the code never touches it
LatchAfterDestroyBroken(st) == "incomplete"
LatchAfterDestroy(st) == st

\* ffi::FPDF_DestroyLibrary(), as the native engine sees it
TeardownBroken(o) == o
Teardown(o) ==
    [o EXCEPT !.issued = @ \cup {TeardownFn},
              !.count = [g \in CountedFns |-> IF g = TeardownFn THEN @[g] + 1 ELSE @[g]]]

\* FPDF_DestroyLibrary(), with no look at INIT
Destroy(t, o) ==
    /\ Serial(t)
    /\ Enter(t, o, NoArg)
    /\ engine' = "destroyed"
    /\ once' = LatchAfterDestroy(once)
    /\ obs' = [obs EXCEPT ![t] = Teardown(@)]
    /\ cret' = [cret EXCEPT ![t] = RetVoid]
    /\ pc' = [pc EXCEPT ![t] = "ret"]
    /\ UNCHANGED <<nSetup, heap, loc, res>>

\* pub fn cleanup()
cleanup(t) == Destroy(t, "cleanup")

\* pub extern "C" fn pdfium_wasm_cleanup()
pdfium_wasm_cleanup(t) == Destroy(t, "pdfium_wasm_cleanup")

\* if !ptr.is_null() { CString::from_raw(ptr) }
FreeReleasesBroken(ptr) == FALSE
FreeReleases(ptr) == ptr # 0

\* pub extern "C" fn pdfium_wasm_free_string(ptr): null, or a buffer the
\* caller holds
pdfium_wasm_free_string(t) ==
    \E ptr \in {0} \cup heap :
        /\ Serial(t)
        /\ Enter(t, "pdfium_wasm_free_string", [data |-> IF ptr = 0 THEN "null" ELSE "ptr", len |-> ptr, over |-> 0])
        /\ heap' = IF FreeReleases(ptr) THEN heap \ {ptr} ELSE heap
        /\ cret' = [cret EXCEPT ![t] = RetVoid]
        /\ pc' = [pc EXCEPT ![t] = "ret"]
        /\ UNCHANGED <<once, engine, nSetup, loc, res, obs>>

\* pub unsafe extern "C" fn pdfium_wasm_load_custom_document(...)
pdfium_wasm_load_custom_document(t) ==
    /\ Enter(t, "pdfium_wasm_load_custom_document", NoArg)
    /\ pc' = [pc EXCEPT ![t] = "init"]
    /\ UNCHANGED <<globals, loc, res, cret, obs>>

\* IPDF_StreamingIO_LoadDocument: the handle goes to the caller
load_custom_LoadDocument(t) ==
    /\ pc[t] = "lc_load"
    /\ \E d \in {NULL, DocHandle} :
        cret' = [cret EXCEPT ![t] = RetHandle(d)]
    /\ obs' = [obs EXCEPT ![t] = Call(@, "IPDF_StreamingIO_LoadDocument", {})]
    /\ pc' = [pc EXCEPT ![t] = "ret"]
    /\ UNCHANGED <<globals, op, arg, loc, res>>

\* pub unsafe extern "C" fn pdfium_wasm_save_as_copy_custom(document, ...):
\* 0 for a null document, else IPDF_StreamingIO_SaveWithCallback's result
pdfium_wasm_save_as_copy_custom(t) ==
    \E document \in {"null", "ptr"}, r \in {0, 1} :
        /\ Serial(t)
        /\ Enter(t, "pdfium_wasm_save_as_copy_custom", [data |-> document, len |-> 0, over |-> 0])
        /\ IF document = "null"
           THEN /\ r = 0
                /\ cret' = [cret EXCEPT ![t] = RetInt(0)]
                /\ obs' = obs
           ELSE /\ cret' = [cret EXCEPT ![t] = RetInt(r)]
                /\ obs' = [obs EXCEPT ![t] = Call(@, "IPDF_StreamingIO_SaveWithCallback", {})]
        /\ pc' = [pc EXCEPT ![t] = "ret"]
        /\ UNCHANGED <<globals, loc, res>>

(***************************************************************************)
(* The C-ABI shim's match on the pipeline's result.                        *)
(***************************************************************************)
\* the address the allocator hands out
FreshBuffer == CHOOSE id \in 1..(MaxHeld + 1) : id \notin heap

\* which arm of `match extract_text(..)` / `match pdf_to_json(..)` is taken
MatchesOkBroken(r) == r.kind = "Ok" /\ r.text # <<>>
MatchesOk(r) == r.kind = "Ok"

\* Ok(s) => CString::new(s).unwrap_or_default().into_raw(); Err(_) => null
shim_match(t) ==
    /\ pc[t] = "shim_wrap"
    /\ IF MatchesOk(res[t])
       THEN /\ cret' = [cret EXCEPT ![t] = RetPtr(FreshBuffer, CStringBytes(res[t].text))]
            /\ heap' = heap \cup {FreshBuffer}
       ELSE /\ cret' = [cret EXCEPT ![t] = RetNull]
            /\ heap' = heap
    /\ pc' = [pc EXCEPT ![t] = "ret"]
    /\ UNCHANGED <<once, engine, nSetup, op, arg, loc, res, obs>>

\* the call is over: its locals go out of scope
Return(t) ==
    /\ pc[t] = "ret"
    /\ pc' = [pc EXCEPT ![t] = "idle"]
    /\ op' = [op EXCEPT ![t] = "none"]
    /\ arg' = [arg EXCEPT ![t] = NoArg]
    /\ loc' = [loc EXCEPT ![t] = NoLoc]
    /\ res' = [res EXCEPT ![t] = NoRes]
    /\ cret' = [cret EXCEPT ![t] = NoRet]
    /\ obs' = [obs EXCEPT ![t] = NoObs]
    /\ UNCHANGED globals

Next ==
    \E t \in Threads :
        \/ initialize(t)
        \/ pdfium_wasm_initialize(t)
        \/ call_once(t)
        \/ init_closure(t)
        \/ init_return(t)
        \/ extract_text(t)
        \/ pdfium_wasm_extract_text(t)
        \/ extract_text_empty(t)
        \/ extract_text_LoadMemDocument(t)
        \/ extract_text_GetPageCount(t)
        \/ extract_text_LoadPage(t)
        \/ extract_text_TextLoadPage(t)
        \/ extract_text_CountChars(t)
        \/ extract_text_alloc(t)
        \/ extract_text_GetText(t)
        \/ extract_text_decode(t)
        \/ extract_text_TextClosePage(t)
        \/ extract_text_ClosePage(t)
        \/ extract_text_CloseDocument(t)
        \/ shim_match(t)
        \/ pdf_to_json(t)
        \/ pdfium_wasm_pdf_to_json(t)
        \/ pdf_to_json_empty(t)
        \/ pdf_to_json_PDFToJSON(t)
        \/ pdf_to_json_copy(t)
        \/ pdf_to_json_FreeString(t)
        \/ cleanup(t)
        \/ pdfium_wasm_cleanup(t)
        \/ pdfium_wasm_free_string(t)
        \/ pdfium_wasm_load_custom_document(t)
        \/ load_custom_LoadDocument(t)
        \/ pdfium_wasm_save_as_copy_custom(t)
        \/ Return(t)

Spec == Init /\ [][Next]_vars

(***************************************************************************)
(* Text extraction by one caller from a native engine that writes any      *)
(* code unit: a NUL, a surrogate pair, a lone surrogate.                   *)
(***************************************************************************)
OneCaller == {"t1"}

NextText ==
    \E t \in OneCaller :
        \/ extract_text(t)
        \/ pdfium_wasm_extract_text(t)
        \/ call_once(t)
        \/ init_closure(t)
        \/ extract_text_empty(t)
        \/ extract_text_LoadMemDocument(t)
        \/ extract_text_GetPageCount(t)
        \/ extract_text_LoadPage(t)
        \/ extract_text_TextLoadPage(t)
        \/ extract_text_CountChars(t)
        \/ extract_text_alloc(t)
        \/ extract_text_GetText_AnyUnit(t)
        \/ extract_text_decode(t)
        \/ extract_text_TextClosePage(t)
        \/ extract_text_ClosePage(t)
        \/ extract_text_CloseDocument(t)
        \/ shim_match(t)
        \/ pdfium_wasm_free_string(t)
        \/ Return(t)

SpecText == Init /\ [][NextText]_vars

(***************************************************************************)
(* Text extraction by one caller from input buffers of any length up to    *)
(* 2^31 - 1 + MaxOver bytes.                                               *)
(***************************************************************************)
NextLongInput ==
    \E t \in OneCaller :
        \/ extract_text(t)
        \/ extract_text_LongInput(t)
        \/ call_once(t)
        \/ init_closure(t)
        \/ extract_text_empty(t)
        \/ extract_text_LoadMemDocument(t)
        \/ extract_text_GetPageCount(t)
        \/ extract_text_LoadPage(t)
        \/ extract_text_TextLoadPage(t)
        \/ extract_text_CountChars(t)
        \/ extract_text_alloc(t)
        \/ extract_text_GetText(t)
        \/ extract_text_decode(t)
        \/ extract_text_TextClosePage(t)
        \/ extract_text_ClosePage(t)
        \/ extract_text_CloseDocument(t)
        \/ Return(t)

SpecLongInput == Init /\ [][NextLongInput]_vars

(***************************************************************************)
(* The claims.                                                             *)
(***************************************************************************)
InitOps == {"initialize", "pdfium_wasm_initialize"}
Ended == {"ret", "shim_wrap", "panicked"}
Returned == {"ret", "shim_wrap"}

\* C1: however many initialize() calls are made, one after another or
\* racing, directly or through another entry point, the native setup runs
\* once: never twice, and exactly once by the time any caller is past
\* initialize(); and every initialize() call returns the same outcome, Ok.
C1_SetupExactlyOnce ==
    /\ nSetup <= 1
    /\ \A t \in Threads :
        /\ (obs[t].inited /\ pc[t] # "init_setup") => nSetup = 1
        /\ (op[t] \in InitOps /\ pc[t] = "ret") => res[t] = Ok(<<>>)
        /\ (op[t] = "pdfium_wasm_initialize" /\ pc[t] = "ret") => cret[t] = RetInt(1)

\* C1 witness: of three initialize() calls, one ran the setup, a second
\* has returned Ok without running it, and a third is at the latch.
C1_Witness ==
    \E a, b \in Threads :
        /\ op[a] = "initialize" /\ pc[a] = "ret"
        /\ res[a] = Ok(<<>>)
        /\ SetupFn \notin obs[a].issued
        /\ nSetup = 1
        /\ op[b] = "pdfium_wasm_initialize" /\ pc[b] = "init"

\* C2: no caller is past initialize(), and no pipeline has made a native
\* call, before the one execution of the setup has completed: a caller that
\* finds the latch taken waits for the caller that took it.
C2_NoneProceedsBeforeSetupEnds ==
    \A t \in Threads :
        /\ (obs[t].inited /\ pc[t] # "init_setup") => (once = "complete" /\ nSetup >= 1)
        /\ op[t] \in PipelineOps => ~obs[t].early
        /\ (op[t] \in PipelineOps /\ obs[t].issued \cap EngineFns # {}) => once = "complete"

\* C2 witness: one caller is inside the setup closure while a pipeline call
\* of the other thread waits at the latch.
C2_Witness ==
    \E a, b \in Threads :
        /\ pc[a] = "init_setup"
        /\ once = "running"
        /\ pc[b] = "init"
        /\ op[b] \in PipelineOps

\* C3 (the claim as stated): in every run of extract_text no handle is
\* released twice, and once the run is over, by a return or by unwinding,
\* every handle it acquired has been released.
C3_EveryHandleReleasedOnce ==
    \A t \in Threads :
        op[t] \in ExtractOps =>
            /\ ~obs[t].badRel
            /\ pc[t] \in Ended => obs[t].live = {}

\* C4: in every run of extract_text the releases nest and no handle is used
\* after its release: a live text page lies within its live page, a live
\* page within the live document, at most one page and one text page are
\* live, none is live when the next page is loaded or the document is
\* closed, and no native call is handed a handle that is not live.
C4_ReleasesNested ==
    \A t \in Threads :
        op[t] \in ExtractOps =>
            /\ ~obs[t].stale
            /\ ~obs[t].badRel
            /\ Cardinality({h \in obs[t].live : h[1] = "page"}) <= 1
            /\ Cardinality({h \in obs[t].live : h[1] = "text"}) <= 1
            /\ \A h \in obs[t].live :
                /\ h[1] = "text" => PageHandle(h[2]) \in obs[t].live
                /\ h[1] = "page" => DocHandle \in obs[t].live
            /\ pc[t] \in {"ex_loadpage", "ex_closedoc"} => obs[t].live = {DocHandle}
            /\ "FPDF_CloseDocument" \in obs[t].issued => obs[t].live = {}

\* C4 witness: a two-page run has returned after closing a text page, a
\* page and the document, with text of the first page before the separator.
C4_Witness ==
    \E t \in Threads :
        /\ op[t] = "extract_text"
        /\ pc[t] = "ret"
        /\ loc[t].page_count = 2
        /\ {"FPDFText_ClosePage", "FPDF_ClosePage", "FPDF_CloseDocument"} \subseteq obs[t].issued
        /\ Len(res[t].text) > Len(SEPARATOR)

\* C5: on an empty input extract_text and pdf_to_json make no native call
\* but the setup of their initialize(), acquire nothing, and return
\* Err(InvalidData).
C5_EmptyInputIsInvalidData ==
    \A t \in Threads :
        (op[t] \in {"extract_text", "pdf_to_json"} /\ arg[t].len = 0) =>
            /\ obs[t].issued \subseteq {SetupFn}
            /\ obs[t].live = {}
            /\ pc[t] # "panicked"
            /\ pc[t] = "ret" => res[t] = Err("InvalidData")

\* C5 witness: an extract_text call on an empty input, which ran the setup
\* itself, has returned InvalidData.
C5_Witness ==
    \E t \in Threads :
        /\ op[t] = "extract_text"
        /\ arg[t].len = 0
        /\ pc[t] = "ret"
        /\ res[t] = Err("InvalidData")
        /\ obs[t].issued = {SetupFn}

\* C6 (the claim as stated): a successful extract_text on a document of
\* K >= 1 pages returns a text with exactly K - 1 separators, whatever
\* happened to each page.
C6_SeparatorsArePagesMinusOne ==
    \A t \in Threads :
        (op[t] \in ExtractOps /\ pc[t] \in Returned /\ res[t].kind = "Ok"
            /\ loc[t].page_count >= 1) =>
            CountSeparators(res[t].text) = loc[t].page_count - 1

\* C7: when the native load (the native converter) returns null for a
\* non-empty input, the call is over with ExtractionFailed
\* (ConversionFailed): it has not panicked, has made no page, close or free
\* call, and holds no handle.
C7_RejectedInputFails ==
    \A t \in Threads :
        /\ (op[t] \in ExtractOps /\ "FPDF_LoadMemDocument" \in obs[t].issued
                /\ loc[t].doc = NULL) =>
            /\ pc[t] \in Returned
            /\ res[t] = Err("ExtractionFailed")
            /\ obs[t].issued \subseteq {SetupFn, "FPDF_LoadMemDocument"}
            /\ obs[t].live = {}
        /\ (op[t] \in JsonOps /\ "IPDF_QPDF_PDFToJSON" \in obs[t].issued
                /\ loc[t].json_ptr = NULL) =>
            /\ pc[t] \in Returned
            /\ res[t] = Err("ConversionFailed")
            /\ obs[t].issued \subseteq {SetupFn, "IPDF_QPDF_PDFToJSON"}
            /\ obs[t].live = {}

\* C7 witness: extract_text has returned ExtractionFailed for a non-empty
\* input the native load rejected.
C7_Witness ==
    \E t \in Threads :
        /\ op[t] = "extract_text"
        /\ arg[t].len > 0
        /\ pc[t] = "ret"
        /\ "FPDF_LoadMemDocument" \in obs[t].issued
        /\ res[t] = Err("ExtractionFailed")

\* C8 (the claim as stated): once the native load has returned a document,
\* extract_text ends by returning Ok.
C8_LoadedDocumentReturnsOk ==
    \A t \in Threads :
        (op[t] \in ExtractOps /\ loc[t].doc # NULL /\ pc[t] \in Ended) =>
            /\ pc[t] \in Returned
            /\ res[t].kind = "Ok"

\* C9 (the claim as stated): a call that has made a native load, page,
\* convert or save call has called initialize() itself, and the setup had
\* run when that native call was made.
C9_EntryPointsInitializeFirst ==
    \A t \in Threads :
        obs[t].issued \cap (LoadFns \cup PageFns \cup ConvertFns \cup SaveFns) # {} =>
            /\ obs[t].inited
            /\ ~obs[t].early

\* C10: a shim pipeline call with a null pointer or a zero length returns
\* null at once: the step that enters it leaves the latch, the engine and
\* the heap as they were, and the call has made no native call, has not
\* called initialize() and has no pipeline result.
C10_ShimRejectsNullOrEmpty ==
    [][\A t \in Threads :
        (op'[t] \in ShimPipelineOps /\ (arg'[t].data = "null" \/ arg'[t].len = 0)) =>
            /\ pc'[t] = "ret"
            /\ cret'[t] = RetNull
            /\ obs'[t] = NoObs
            /\ res'[t] = NoRes
            /\ pc[t] = "idle" => UNCHANGED globals]_vars

\* C10 witness: pdfium_wasm_extract_text was called with a null pointer and
\* a non-zero length before anything was initialized, and has returned null.
C10_Witness ==
    \E t \in Threads :
        /\ op[t] = "pdfium_wasm_extract_text"
        /\ arg[t].data = "null"
        /\ arg[t].len > 0
        /\ pc[t] = "ret"
        /\ cret[t] = RetNull
        /\ once = "incomplete"
        /\ heap = {}

\* C11: for a non-null pointer and a non-zero length, the two pipeline
\* shims return a buffer exactly when the pipeline returned Ok and null
\* exactly when it returned Err: the step that returns from the shim turns
\* Ok into the address of a buffer that was not allocated before, is
\* allocated after and ends with a zero byte, and turns Err into null with
\* the heap as it was; and a buffer leaves the heap only in a step that
\* enters pdfium_wasm_free_string.
C11_ShimReturnsBufferIffOk ==
    [][/\ \A t \in Threads :
            /\ (pc[t] = "shim_wrap" /\ pc'[t] = "ret") =>
                /\ res[t].kind \in {"Ok", "Err"}
                /\ res[t].kind = "Ok" =>
                    /\ cret'[t].kind = "ptr"
                    /\ cret'[t].v \notin heap
                    /\ heap' = heap \cup {cret'[t].v}
                    /\ Len(cret'[t].bytes) >= 1
                    /\ cret'[t].bytes[Len(cret'[t].bytes)] = 0
                /\ res[t].kind = "Err" =>
                    /\ cret'[t] = RetNull
                    /\ heap' = heap
            /\ (op'[t] \in ShimPipelineOps /\ pc'[t] = "ret"
                    /\ arg'[t].data = "ptr" /\ arg'[t].len > 0) =>
                /\ cret'[t].kind = "ptr" <=> res'[t].kind = "Ok"
                /\ cret'[t] = RetNull <=> res'[t].kind = "Err"
                /\ cret'[t].kind = "ptr" => cret'[t].v \in heap'
       /\ (heap \ heap' # {}) =>
            \E t \in Threads : pc[t] = "idle" /\ op'[t] = "pdfium_wasm_free_string"]_vars

\* C11 witness: pdfium_wasm_extract_text has returned the buffer "A\0" for
\* a pipeline result Ok("A"), and the buffer is allocated.
C11_Witness ==
    \E t \in Threads :
        /\ op[t] = "pdfium_wasm_extract_text"
        /\ pc[t] = "ret"
        /\ res[t] = Ok(<<65>>)
        /\ cret[t].kind = "ptr"
        /\ cret[t].bytes = <<65, 0>>
        /\ heap = {cret[t].v}

\* C12 (the claim as stated): no call of a C-ABI shim function ends by
\* unwinding, whatever the native engine returns.
C12_ShimNeverUnwinds ==
    \A t \in Threads :
        op[t] \in {"pdfium_wasm_initialize", "pdfium_wasm_extract_text",
                   "pdfium_wasm_pdf_to_json", "pdfium_wasm_free_string",
                   "pdfium_wasm_cleanup"} =>
            pc[t] # "panicked"

\* C13: a pdf_to_json call makes at most one native conversion call, and
\* exactly one, with format version 2, by the time a call on a non-empty
\* input is over; a non-null native buffer is copied while it is live, is
\* released once, by IPDF_QPDF_FreeString and by no other function, as the
\* last native call before the return of Ok(copy), and is not read after
\* that; a null result is followed by no free call.
C13_JsonBufferFreedOnce ==
    \A t \in Threads :
        op[t] \in JsonOps =>
            /\ obs[t].count["IPDF_QPDF_PDFToJSON"] <= 1
            /\ (arg[t].data = "ptr" /\ arg[t].len > 0 /\ pc[t] \in Ended) =>
                    obs[t].count["IPDF_QPDF_PDFToJSON"] = 1
            /\ obs[t].count["IPDF_QPDF_PDFToJSON"] = 1 => obs[t].version = 2
            /\ ~obs[t].badRel
            /\ ~obs[t].stale
            /\ obs[t].freedBy \subseteq {<<"IPDF_QPDF_FreeString", "json">>}
            /\ pc[t] = "pj_free" =>
                /\ obs[t].live = {loc[t].json_ptr}
                /\ loc[t].json = to_string_lossy(loc[t].buffer)
            /\ "IPDF_QPDF_FreeString" \in obs[t].issued =>
                /\ pc[t] \in Returned
                /\ res[t] = Ok(loc[t].json)
            /\ pc[t] \in Ended =>
                /\ obs[t].live = {}
                /\ loc[t].json_ptr # NULL => "IPDF_QPDF_FreeString" \in obs[t].issued
            /\ loc[t].json_ptr = NULL => "IPDF_QPDF_FreeString" \notin obs[t].issued

\* C13 witness: pdf_to_json has returned the copy of a native buffer that
\* held one invalid byte, after one conversion call and the buffer's
\* release by IPDF_QPDF_FreeString.
C13_Witness ==
    \E t \in Threads :
        /\ op[t] = "pdf_to_json"
        /\ pc[t] = "ret"
        /\ res[t] = Ok(<<65533>>)
        /\ obs[t].count["IPDF_QPDF_PDFToJSON"] = 1
        /\ obs[t].freedBy = {<<"IPDF_QPDF_FreeString", "json">>}
        /\ obs[t].live = {}

CleanupOps == {"cleanup", "pdfium_wasm_cleanup"}

\* C14: the latch is never reset: once the native setup has run the latch
\* is complete and stays so, whatever cleanup() has done since, no caller
\* is inside the setup closure again, and the setup has run once.
C14_LatchNeverReset ==
    /\ nSetup >= 1 =>
        /\ nSetup = 1
        /\ once = "complete"
        /\ \A t \in Threads : pc[t] # "init_setup"
    /\ once = "complete" => nSetup = 1

\* C14 witness: after a setup and a cleanup(), an extract_text call has
\* gone through initialize() without running the setup.
C14_Witness ==
    \E t \in Threads :
        /\ op[t] = "extract_text"
        /\ pc[t] = "ex_start"
        /\ obs[t].inited
        /\ SetupFn \notin obs[t].issued
        /\ engine = "destroyed"
        /\ once = "complete"
        /\ nSetup = 1

\* C15: the step that makes a cleanup() or pdfium_wasm_cleanup() call makes
\* exactly one native teardown call and no other native call, does not go
\* through initialize(), and leaves the latch and the number of setups as
\* they were, whether or not anything was initialized; the call makes no
\* teardown call after that, and no other entry point makes one.
C15_CleanupTearsDownOncePerCall ==
    [][\A t \in Threads :
        /\ (pc[t] = "idle" /\ op'[t] \in CleanupOps) =>
            /\ obs'[t].count[TeardownFn] = 1
            /\ obs'[t].issued = {TeardownFn}
            /\ ~obs'[t].inited
            /\ engine' = "destroyed"
            /\ once' = once
            /\ nSetup' = nSetup
            /\ pc'[t] = "ret"
        /\ (pc[t] # "idle" /\ op[t] \in CleanupOps) =>
            (pc'[t] = "idle" \/ obs'[t] = obs[t])
        /\ op'[t] \notin CleanupOps =>
            /\ obs'[t].count[TeardownFn] = 0
            /\ TeardownFn \notin obs'[t].issued]_vars

\* C15 witness: a cleanup() call made before any initialization has made
\* its one teardown call; the latch is still incomplete and no setup ran.
C15_Witness ==
    \E t \in Threads :
        /\ op[t] = "cleanup"
        /\ pc[t] = "ret"
        /\ obs[t].count[TeardownFn] = 1
        /\ engine = "destroyed"
        /\ once = "incomplete"
        /\ nSetup = 0

\* C16: nothing is retried: a call of extract_text makes at most one
\* document-load call and, for each page index, at most one page-load and
\* one text-page-load call, the indexes it passes never going back; a call
\* of pdf_to_json makes at most one conversion call; and a call whose
\* result is an error is over, with that error (null from a shim) as what
\* it returns.
C16_NoRetry ==
    \A t \in Threads :
        /\ op[t] \in ExtractOps =>
            /\ obs[t].count["FPDF_LoadMemDocument"] <= 1
            /\ obs[t].count["FPDF_LoadPage"] <= 1
            /\ obs[t].count["FPDFText_LoadPage"] <= 1
            /\ ~obs[t].back
            /\ obs[t].idx <= loc[t].i
        /\ op[t] \in JsonOps =>
            obs[t].count["IPDF_QPDF_PDFToJSON"] <= 1
        /\ (op[t] \in PipelineOps /\ res[t].kind = "Err") =>
            /\ pc[t] \in Returned
            /\ res[t].err \in {"InvalidData", "ExtractionFailed", "ConversionFailed"}
            /\ obs[t].count["FPDF_LoadMemDocument"] + obs[t].count["IPDF_QPDF_PDFToJSON"] <= 1
            /\ (op[t] \in ShimPipelineOps /\ pc[t] = "ret") => cret[t] = RetNull

\* C16 witness: an extract_text call is past both pages of a two-page
\* document, the second of which had its page and its text page loaded
\* once each.
C16_Witness ==
    \E t \in Threads :
        /\ op[t] = "extract_text"
        /\ pc[t] = "ex_closedoc"
        /\ loc[t].page_count = 2
        /\ obs[t].idx = 1
        /\ obs[t].count["FPDF_LoadMemDocument"] = 1
        /\ obs[t].count["FPDF_LoadPage"] = 1
        /\ obs[t].count["FPDFText_LoadPage"] = 1

\* C17: for a page whose page and text page both loaded, the steps between
\* FPDFText_LoadPage and FPDFText_ClosePage append to the text nothing when
\* the character count is <= 0 (FPDFText_GetText is then not called) or
\* when FPDFText_GetText reports <= 0 units written, and otherwise the lossy
\* UTF-16 decoding of the first chars_written - 1 units of the buffer, which
\* has text_length + 1 units.
C17_PageTextIsDecodedUnits ==
    [][\A t \in Threads :
        pc'[t] # pc[t] =>
            /\ pc[t] \in {"ex_tload", "ex_cchars", "ex_alloc", "ex_gettext", "ex_tclose"} =>
                loc'[t].text = loc[t].text
            /\ (pc[t] = "ex_cchars" /\ loc'[t].text_length <= 0) =>
                pc'[t] = "ex_tclose"
            /\ pc[t] = "ex_gettext" =>
                /\ loc[t].text_length > 0
                /\ Len(loc'[t].buffer) = loc[t].text_length + 1
            /\ pc[t] = "ex_decode" =>
                loc'[t].text = loc[t].text \o
                    (IF loc[t].chars_written <= 0 THEN <<>>
                     ELSE from_utf16_lossy(SubSeq(loc[t].buffer, 1, loc[t].chars_written - 1)))]_vars

\* C17 witness: for a page of one character the native engine wrote a lone
\* surrogate and the terminator, and the page added U+FFFD to the text.
C17_Witness ==
    \E t \in Threads :
        /\ op[t] = "extract_text"
        /\ pc[t] = "ex_tclose"
        /\ loc[t].text_length = 1
        /\ "FPDFText_GetText" \in obs[t].issued
        /\ loc[t].text = <<65533>>

C19_BufferHoldsTheString ==
    \A t \in Threads :
        (op[t] \in ShimPipelineOps /\ pc[t] = "ret" /\ res[t].kind = "Ok") =>
            /\ cret[t].kind = "ptr"
            /\ cret[t].bytes = Utf8(res[t].text) \o <<0>>

\* C20 (the claim as stated): every native load, page, text or conversion
\* call of a pipeline is made while the native engine is initialized: after
\* the setup, and not after a teardown that no setup has followed.
C20_NativeCallsWhileInitialized ==
    \A t \in Threads :
        (op[t] \in PipelineOps /\ obs[t].issued \cap (LoadFns \cup PageFns \cup ConvertFns) # {}) =>
            ~obs[t].down

\* C21 (the claim as stated): the size extract_text passes to
\* FPDF_LoadMemDocument for a non-empty buffer is the length of the buffer:
\* it is not negative and not smaller than the length, for a length above
\* 2^31 - 1 too.
C21_LoadSizeIsLength ==
    \A t \in Threads :
        (op[t] \in ExtractOps /\ "FPDF_LoadMemDocument" \in obs[t].issued) =>
            /\ obs[t].size >= 0
            /\ obs[t].size >= arg[t].len
            /\ arg[t].over = 0
            /\ obs[t].size = arg[t].len

\* C22: no call has the result InitializationFailed: every initialize()
\* call that has returned has returned Ok, every pdfium_wasm_initialize
\* call has returned 1, and a pipeline call on a non-empty input that is
\* over went through initialize() as far as its native load or conversion
\* call, in whatever state the latch and the native engine were.
C22_InitializeNeverFails ==
    \A t \in Threads :
        /\ res[t].kind = "Err" => res[t].err # "InitializationFailed"
        /\ (op[t] \in InitOps /\ pc[t] = "ret") => res[t].kind = "Ok"
        /\ (op[t] = "pdfium_wasm_initialize" /\ pc[t] = "ret") =>
            /\ cret[t].kind = "int"
            /\ cret[t].v = 1
        /\ (op[t] \in PipelineOps /\ obs[t].inited /\ arg[t].len > 0
                /\ pc[t] \in Ended) =>
            obs[t].issued \cap (LoadFns \cup ConvertFns) # {}

\* C22 witness: after a setup and a cleanup(), with the native engine
\* destroyed, a pdfium_wasm_initialize call has returned 1.
C22_Witness ==
    \E t \in Threads :
        /\ op[t] = "pdfium_wasm_initialize"
        /\ pc[t] = "ret"
        /\ cret[t] = RetInt(1)
        /\ res[t].kind = "Ok"
        /\ engine = "destroyed"
        /\ nSetup = 1
====
